---------------------------- MODULE Spec2Model ----------------------------
(***************************************************************************)
(* A model of the heap-segment editor of src/filenode: the page and tuple  *)
(* codecs (Page, PageHeaderData, ItemIdData, Item, HeapTupleHeaderData),   *)
(* the row serializer and the update engine of Filenode.                   *)
(*                                                                         *)
(* Bytes are naturals 0..255 and byte strings are sequences of them.       *)
(* Python objects that the code shares by reference (the tuple headers)    *)
(* live in a heap, `headers`, and an Item holds the index of its header.   *)
(* Integers stay below 2^31 (the model checker's range); the code packs    *)
(* them with struct and rejects what does not fit the field.               *)
(***************************************************************************)
EXTENDS Integers, Sequences, FiniteSets, TLC

---------------------------------------------------------------------------
(* Program constants *)

\* PageHeaderData._FIELD_SIZE
PageHeaderData_FIELD_SIZE == 24
\* ItemIdData._FIELD_SIZE
ItemIdData_FIELD_SIZE == 4
\* HeapTupleHeaderData._FIELD_SIZE
HeapTupleHeaderData_FIELD_SIZE == 23

\* LpFlags
LP_UNUSED == 0
LP_NORMAL == 1
LP_REDIRECT == 2
LP_DEAD == 3

\* PdFlags
PD_UNDEFINED == 0

\* HeapT_InfomaskFlags
HEAP_HASNULL == 1
HEAP_HASVARWIDTH == 2
HEAP_XMIN_COMMITTED == 256
HEAP_XMAX_INVALID == 2048
HEAP_UPDATED == 8192

\* HeapT_Infomask2Flags
HEAP_HOT_UPDATED == 16384

\* T_Infomask2.HEAP_NATTS_MASK + 1 (natts = raw & 0x07FF)
HEAP_NATTS_LIMIT == 2048

\* Varlena_1B._VA_MAX_DATA_SIZE, Varlena._VA_MAX_DATA_SIZE (inherited by Varlena_4B)
Varlena_1B_VA_MAX_DATA_SIZE == 126
Varlena_VA_MAX_DATA_SIZE == 0

---------------------------------------------------------------------------
(* Integers, flags and byte strings *)

Min(a, b) == IF a <= b THEN a ELSE b

\* math.ceil(a / b) for a >= 0, b > 0
Ceil(a, b) == (a + b - 1) \div b

\* flag in flags, for a one-bit flag
HasFlag(flags, flag) == (flags \div flag) % 2 = 1

\* flags | flag
SetFlag(flags, flag) == IF HasFlag(flags, flag) THEN flags ELSE flags + flag

\* flags & ~flag
ClearFlag(flags, flag) == IF HasFlag(flags, flag) THEN flags - flag ELSE flags

\* bytes(n), n >= 0
Zeros(n) == [i \in 1..n |-> 0]

\* Python's s[a:b] for 0 <= a, 0 <= b: the slice is cut at the end of s
Slice(s, a, b) == SubSeq(s, a + 1, Min(b, Len(s)))

\* Python's s[a:] for 0 <= a
SliceFrom(s, a) == SubSeq(s, a + 1, Len(s))

RECURSIVE Pack(_, _)
\* struct.pack('<B' | '<H' | '<I' | '<Q', n): w bytes, least significant first
Pack(n, w) == IF w = 0 THEN <<>> ELSE <<n % 256>> \o Pack(n \div 256, w - 1)

RECURSIVE Unpack(_)
\* struct.unpack / int.from_bytes(..., 'little')
Unpack(s) == IF s = <<>> THEN 0 ELSE s[1] + 256 * Unpack(Tail(s))

RECURSIVE Pow256(_)
Pow256(w) == IF w = 0 THEN 1 ELSE 256 * Pow256(w - 1)

\* The result of a call that may raise: err names the exception ("none": it
\* returned), b is the value returned.
Ok(b) == [err |-> "none", b |-> b]

Raise(e) == [err |-> e, b |-> <<>>]

---------------------------------------------------------------------------
(* ItemIdData: the bit-packed line pointer *)

\* The 32-bit word is handled as two 16-bit halves (lo: bits 0..15, hi: bits
\* 16..31), so that every number stays below 2^31.

RECURSIVE BitOr(_, _)
\* a | b, for a >= 0, b >= 0
BitOr(a, b) ==
    IF a = 0 THEN b
    ELSE IF b = 0 THEN a
    ELSE (IF a % 2 = 1 \/ b % 2 = 1 THEN 1 ELSE 0)
         + 2 * BitOr(a \div 2, b \div 2)

\* ItemIdData.__init__: lp_off = word & 0x7fff, lp_flags = (word & 0x18000)
\* >> 15, lp_len = (word & 0xfffe0000) >> 17
ItemIdData_init(item_id_bytes) ==
    LET lo == Unpack(Slice(item_id_bytes, 0, 2))
        hi == Unpack(Slice(item_id_bytes, 2, 4))
    IN  [lp_off   |-> lo % 32768,
         lp_flags |-> (lo \div 32768) + 2 * (hi % 2),
         lp_len   |-> hi \div 2]

ItemIdData_to_bytes_flags_at_14(x) ==
    Pack(BitOr(x.lp_off, (x.lp_flags % 4) * 16384) % 65536, 2)
    \o Pack(BitOr(x.lp_len * 2, x.lp_flags \div 4), 2)

\* ItemIdData.to_bytes: struct.pack('<I', lp_len << 17 | lp_flags.value << 15
\* | lp_off), for lp_off < 2^16 and lp_len < 2^15 (a larger lp_len does not
\* fit the word and struct.pack raises)
ItemIdData_to_bytes(x) ==
    Pack(BitOr(x.lp_off, (x.lp_flags % 2) * 32768), 2)
    \o Pack(BitOr(x.lp_len * 2, x.lp_flags \div 2), 2)

---------------------------------------------------------------------------
(* HeapTupleHeaderData: the 23-byte tuple header and its null bitmap *)

HeapTupleHeaderData_init(offset, filenode_bytes) ==
    LET raw2    == Unpack(Slice(filenode_bytes, offset + 18, offset + 20))
        mask    == Unpack(Slice(filenode_bytes, offset + 20, offset + 22))
        natts   == raw2 % HEAP_NATTS_LIMIT
        hasnull == HasFlag(mask, HEAP_HASNULL)
        nbs     == IF hasnull THEN Ceil(natts, 8) ELSE 1
    IN  [t_xmin      |-> Unpack(Slice(filenode_bytes, offset, offset + 4)),
         t_xmax      |-> Unpack(Slice(filenode_bytes, offset + 4, offset + 8)),
         t_cid       |-> Unpack(Slice(filenode_bytes, offset + 8, offset + 12)),
         bi_hi       |-> Unpack(Slice(filenode_bytes, offset + 12, offset + 14)),
         bi_lo       |-> Unpack(Slice(filenode_bytes, offset + 14, offset + 16)),
         ip_posid    |-> Unpack(Slice(filenode_bytes, offset + 16, offset + 18)),
         natts       |-> natts,
         t_infomask2 |-> raw2 - natts,
         t_infomask  |-> mask,
         t_hoff      |-> Unpack(Slice(filenode_bytes, offset + 22, offset + 23)),
         nullmap_byte_size |-> nbs,
         nullmap     |-> IF hasnull
                         THEN Unpack(Slice(filenode_bytes, offset + 23,
                                           offset + 23 + nbs))
                         ELSE 0]

HeapTupleHeaderData_to_bytes(h) ==
    IF h.t_xmin < 0 \/ h.t_xmax < 0
    THEN Raise("struct.error")
    ELSE IF HasFlag(h.t_infomask, HEAP_HASNULL)
            /\ h.nullmap >= Pow256(h.nullmap_byte_size)
    THEN Raise("OverflowError")
    ELSE Ok(Pack(h.t_xmin, 4) \o Pack(h.t_xmax, 4) \o Pack(h.t_cid, 4)
            \o Pack(h.bi_hi, 2) \o Pack(h.bi_lo, 2) \o Pack(h.ip_posid, 2)
            \o Pack(h.natts + h.t_infomask2, 2)
            \o Pack(h.t_infomask, 2)
            \o Pack(h.t_hoff, 1)
            \o (IF HasFlag(h.t_infomask, HEAP_HASNULL)
                THEN Pack(h.nullmap, h.nullmap_byte_size)
                ELSE <<0>>))

---------------------------------------------------------------------------
(* Item: a tuple, its header and its payload *)

\* Item.__init__: the header as a value; Page loading puts it in the heap
Item_init(offset, length, filenode_bytes) ==
    LET header == HeapTupleHeaderData_init(offset, filenode_bytes)
    IN  [header |-> header,
         data   |-> Slice(filenode_bytes, offset + header.t_hoff, offset + length)]

\* Item.to_bytes, of the header value h and the payload data
Item_to_bytes(h, data) ==
    LET hb == HeapTupleHeaderData_to_bytes(h)
    IN  IF hb.err # "none" THEN hb
        ELSE IF h.t_hoff - Len(hb.b) < 0 THEN Raise("ValueError")
        ELSE Ok(hb.b \o Zeros(h.t_hoff - Len(hb.b)) \o data)

---------------------------------------------------------------------------
(* PageHeaderData *)

\* PageHeaderData has no attribute named flags until the update engine sets
\* one; NoAttr stands for its absence.
NoAttr == -1

PageHeaderData_init(header_bytes) ==
    LET _pd_pagesize_version == Unpack(Slice(header_bytes, 18, 20))
    IN  [pd_lsn       |-> Unpack(Slice(header_bytes, 0, 8)),
         checksum     |-> Unpack(Slice(header_bytes, 8, 10)),
         pd_flags     |-> Unpack(Slice(header_bytes, 10, 12)),
         pd_lower     |-> Unpack(Slice(header_bytes, 12, 14)),
         pd_upper     |-> Unpack(Slice(header_bytes, 14, 16)),
         pd_special   |-> Unpack(Slice(header_bytes, 16, 18)),
         length       |-> _pd_pagesize_version - (_pd_pagesize_version % 256),
         version      |-> _pd_pagesize_version % 256,
         pd_prune_xid |-> Unpack(Slice(header_bytes, 20, 24)),
         flags        |-> NoAttr]

PageHeaderData_to_bytes(hd) ==
    IF hd.pd_lower < 0 \/ hd.pd_upper < 0 \/ hd.pd_lower >= 65536
       \/ hd.pd_upper >= 65536
    THEN Raise("struct.error")
    ELSE Ok(Pack(hd.pd_lsn, 8)
            \o Pack(0, 2)
            \o Pack(hd.pd_flags, 2)
            \o Pack(hd.pd_lower, 2)
            \o Pack(hd.pd_upper, 2)
            \o Pack(hd.pd_special, 2)
            \o Pack(hd.length + hd.version, 2)
            \o Pack(hd.pd_prune_xid, 4))

---------------------------------------------------------------------------
(* Page: header, line pointers, free gap, tuples packed from the end *)

\* Page.__init__(offset, filenode_bytes); the items carry their header as a
\* value here, and entering the heap gives each its own object.
Page_init(offset, filenode_bytes) ==
    LET header == PageHeaderData_init(
                      Slice(filenode_bytes, offset,
                            offset + PageHeaderData_FIELD_SIZE))
        items_id_data == Slice(filenode_bytes,
                               offset + PageHeaderData_FIELD_SIZE,
                               offset + header.pd_lower)
        item_ids == [k \in 1..Ceil(Len(items_id_data), 4) |->
                        ItemIdData_init(Slice(items_id_data, 4 * (k - 1), 4 * k))]
    IN  [header   |-> header,
         item_ids |-> item_ids,
         items    |-> [k \in 1..Len(item_ids) |->
                          Item_init(offset + item_ids[k].lp_off,
                                    item_ids[k].lp_len, filenode_bytes)]]

RECURSIVE ItemIdsBytes(_, _)
\* b''.join(x.to_bytes() for x in self.item_ids), from slot k on
ItemIdsBytes(item_ids, k) ==
    IF k > Len(item_ids) THEN <<>>
    ELSE ItemIdData_to_bytes(item_ids[k]) \o ItemIdsBytes(item_ids, k + 1)

RECURSIVE ItemsRevBytes(_, _, _)
\* The loop of Page.to_bytes over reversed(self.items): items i, i-1, .., 1,
\* each followed by zeros up to a multiple of 8 bytes.
ItemsRevBytes(items, heap, i) ==
    IF i = 0 THEN Ok(<<>>)
    ELSE LET ib == Item_to_bytes(heap[items[i].header], items[i].data)
         IN  IF ib.err # "none" THEN ib
             ELSE LET rest == ItemsRevBytes(items, heap, i - 1)
                  IN  IF rest.err # "none" THEN rest
                      ELSE Ok(ib.b
                              \o Zeros(Ceil(Len(ib.b), 8) * 8 - Len(ib.b))
                              \o rest.b)

\* Page.to_bytes without its last line, the padding up to header.length
Page_to_bytes_unpadded(page, heap) ==
    LET hb  == PageHeaderData_to_bytes(page.header)
        gap == page.header.pd_upper - page.header.pd_lower
        its == ItemsRevBytes(page.items, heap, Len(page.items))
        page_bytes == hb.b \o ItemIdsBytes(page.item_ids, 1) \o Zeros(gap) \o its.b
    IN  IF hb.err # "none" THEN hb
        ELSE IF gap < 0 THEN Raise("ValueError")
        ELSE IF its.err # "none" THEN its
        ELSE Ok(page_bytes)

\* Page.to_bytes: the page's bytes, or the exception raised (bytes(n) of a
\* negative n raises ValueError)
Page_to_bytes(page, heap) ==
    LET hb  == PageHeaderData_to_bytes(page.header)
        gap == page.header.pd_upper - page.header.pd_lower
        its == ItemsRevBytes(page.items, heap, Len(page.items))
        page_bytes == hb.b \o ItemIdsBytes(page.item_ids, 1) \o Zeros(gap) \o its.b
    IN  IF hb.err # "none" THEN hb
        ELSE IF gap < 0 THEN Raise("ValueError")
        ELSE IF its.err # "none" THEN its
        ELSE IF page.header.length - Len(page_bytes) < 0 THEN Raise("ValueError")
        ELSE Ok(page_bytes \o Zeros(page.header.length - Len(page_bytes)))

RECURSIVE PagesBytes(_, _, _)
\* b''.join(x.to_bytes() for x in self.pages), from page k on
PagesBytes(pgs, heap, k) ==
    IF k > Len(pgs) THEN Ok(<<>>)
    ELSE LET pb == Page_to_bytes(pgs[k], heap)
         IN  IF pb.err # "none" THEN pb
             ELSE LET rest == PagesBytes(pgs, heap, k + 1)
                  IN  IF rest.err # "none" THEN rest ELSE Ok(pb.b \o rest.b)

RECURSIVE EnterHeap(_, _, _)
\* The pages parsed by Page.__init__ as objects: every Item gets a header
\* object of its own. parsed: pages with header values; acc: [pages, headers].
EnterHeap(parsed, k, acc) ==
    IF k > Len(parsed) THEN acc
    ELSE LET base == Len(acc.headers)
             pg   == parsed[k]
         IN  EnterHeap(parsed, k + 1,
                 [pages   |-> Append(acc.pages,
                                 [header   |-> pg.header,
                                  item_ids |-> pg.item_ids,
                                  items    |-> [i \in 1..Len(pg.items) |->
                                                  [header |-> base + i,
                                                   data   |-> pg.items[i].data]]]),
                  headers |-> acc.headers
                              \o [i \in 1..Len(pg.items) |-> pg.items[i].header]])

---------------------------------------------------------------------------
(* The segments the runs start from.  A sample page is laid out the way    *)
(* the database engine writes a heap page: line pointers after the header, *)
(* tuples packed from the end of the page in slot order, each on an 8-byte *)
(* boundary, the gap between them zero, a checksum in the header.          *)

\* The page length of the samples: pd_pagesize_version = SamplePageLength | 4
SamplePageLength == 256

\* A tuple as stored: 23 header bytes, null bitmap or pad byte, zeros up to
\* t_hoff, payload.  nullmap = -1: no HEAP_HASNULL.
SampleTuple(t_xmin, natts, t_infomask, nullmap, payload) ==
    Pack(t_xmin, 4) \o Pack(0, 4) \o Pack(0, 4)
    \o Pack(0, 2) \o Pack(0, 2) \o Pack(1, 2)
    \o Pack(natts, 2)
    \o Pack(IF nullmap >= 0 THEN SetFlag(t_infomask, HEAP_HASNULL)
                            ELSE t_infomask, 2)
    \o <<24>>
    \o <<IF nullmap >= 0 THEN nullmap ELSE 0>>
    \o payload

\* 1B varlena of n bytes 'x' (header (n + 1) << 1 | 1)
SampleText(n) == <<2 * (n + 1) + 1>> \o [i \in 1..n |-> 120]

\* id = 1, name = 'ab', one pad byte, age = 2
PayloadA == <<1, 0, 0, 0>> \o <<7, 97, 98>> \o <<0>> \o <<2, 0, 0, 0>>

\* id = 7, name and age null
PayloadB == <<7, 0, 0, 0>>

\* id = 3, name = 'x' * 115, age = 4: 124 bytes
PayloadC == <<3, 0, 0, 0>> \o SampleText(115) \o <<4, 0, 0, 0>>

TupleA == SampleTuple(5, 3, HEAP_HASVARWIDTH + HEAP_XMIN_COMMITTED
                            + HEAP_XMAX_INVALID, -1, PayloadA)

\* TupleB is itself the product of an earlier update: HEAP_UPDATED is set
TupleB == SampleTuple(9, 3, HEAP_XMIN_COMMITTED + HEAP_XMAX_INVALID
                            + HEAP_UPDATED, 1, PayloadB)

TupleC == SampleTuple(6, 3, HEAP_HASVARWIDTH + HEAP_XMIN_COMMITTED
                            + HEAP_XMAX_INVALID, -1, PayloadC)

RECURSIVE SampleOffsets(_, _, _)
\* lp_off of each slot: slot 1 ends at the end of the page (<<>>: an unused
\* slot, lp_off = 0)
SampleOffsets(slots, k, end) ==
    IF k > Len(slots) THEN <<>>
    ELSE IF slots[k] = <<>> THEN <<0>> \o SampleOffsets(slots, k + 1, end)
    ELSE LET off == end - Ceil(Len(slots[k]), 8) * 8
         IN  <<off>> \o SampleOffsets(slots, k + 1, off)

RECURSIVE SampleTuples(_, _)
\* the tuple area: slot k above slot k + 1
SampleTuples(slots, k) ==
    IF k > Len(slots) THEN <<>>
    ELSE SampleTuples(slots, k + 1) \o slots[k]
         \o Zeros(Ceil(Len(slots[k]), 8) * 8 - Len(slots[k]))

SamplePage(pd_flags, slots) ==
    LET offs  == SampleOffsets(slots, 1, SamplePageLength)
        area  == SampleTuples(slots, 1)
        lower == PageHeaderData_FIELD_SIZE + ItemIdData_FIELD_SIZE * Len(slots)
        upper == SamplePageLength - Len(area)
        lps   == [k \in 1..Len(slots) |->
                     IF slots[k] = <<>>
                     THEN [lp_off |-> 0, lp_flags |-> LP_UNUSED, lp_len |-> 0]
                     ELSE [lp_off |-> offs[k], lp_flags |-> LP_NORMAL,
                           lp_len |-> Len(slots[k])]]
    IN  Pack(1, 8) \o Pack(48879, 2) \o Pack(pd_flags, 2)
        \o Pack(lower, 2) \o Pack(upper, 2) \o Pack(SamplePageLength, 2)
        \o Pack(SamplePageLength + 4, 2) \o Pack(0, 4)
        \o ItemIdsBytes(lps, 1)
        \o Zeros(upper - lower)
        \o area

\* The sample segments, by number
SampleFile(n) ==
    CASE n = 1 -> SamplePage(0, <<TupleA, TupleB>>)
      [] n = 2 -> SamplePage(4, <<TupleC, TupleB>>)
      [] n = 3 -> SamplePage(0, <<TupleB>>) \o SamplePage(4, <<TupleA>>)
      [] n = 4 -> SamplePage(0, <<<<>>, TupleA>>)

---------------------------------------------------------------------------
(* DataType and the row serializer.  A CSV value is a Python str: here the *)
(* sequence of its code points.                                            *)

\* DataType.field_defs of the schema id,int4,4,i;name,varchar,-1,i;age,int4,4,i
\* (alignment already mapped by _PG_TO_PY_TYPE_MAPPING)
field_defs ==
    << [name |-> "id",   type |-> "int4",    length |-> 4,  alignment |-> "i"],
       [name |-> "name", type |-> "varchar", length |-> -1, alignment |-> "i"],
       [name |-> "age",  type |-> "int4",    length |-> 4,  alignment |-> "i"] >>

\* PARSEABLE_TYPES
PARSEABLE_TYPES ==
    {"oid", "int", "int2", "int4", "int8", "bool", "date", "timetz",
     "timestamptz", "time", "timestamp", "serial", "serial2", "serial4",
     "serial8"}

\* the str 'NULL'
NULL == <<78, 85, 76, 76>>

\* the width struct gives the format characters of _PG_TO_PY_TYPE_MAPPING
StructWidth(alignment) ==
    CASE alignment = "b" -> 1
      [] alignment = "h" -> 2
      [] alignment = "i" -> 4
      [] alignment = "q" -> 8

RECURSIVE Digits(_, _)
\* the value of a run of decimal digits, -1 if a character is no digit
Digits(str, acc) ==
    IF str = <<>> THEN acc
    ELSE IF str[1] < 48 \/ str[1] > 57 THEN -1
    ELSE Digits(Tail(str), 10 * acc + (str[1] - 48))

\* int(field_value): [err, v]
PyInt(str) ==
    LET neg  == str # <<>> /\ str[1] = 45
        body == IF neg THEN Tail(str) ELSE str
        v    == IF body = <<>> THEN -1 ELSE Digits(body, 0)
    IN  IF v < 0 THEN [err |-> "ValueError", v |-> 0]
        ELSE [err |-> "none", v |-> IF neg THEN 0 - v ELSE v]

\* struct.pack of a signed integer in w bytes (two's complement); the
\* values of the model fit their fields
PackSigned(v, w) ==
    IF v >= 0 THEN Pack(v, w)
    ELSE LET c == Pack(0 - v - 1, w) IN [i \in 1..w |-> 255 - c[i]]

\* struct.unpack of a signed integer
UnpackSigned(b) ==
    IF b[Len(b)] < 128 THEN Unpack(b)
    ELSE 0 - Unpack([i \in 1..Len(b) |-> 255 - b[i]]) - 1

\* Filenode._serialize_fixed_len_field.  Every fixed-length column of
\* field_defs has a parseable type; the Base64 branch of the other types
\* ends in NotImplementedError when the value does not decode.
_serialize_fixed_len_field(field_def, field_value) ==
    IF field_def.type \in PARSEABLE_TYPES
    THEN LET n == PyInt(field_value)
         IN  IF n.err # "none" THEN Raise(n.err)
             ELSE Ok(PackSigned(n.v, StructWidth(field_def.alignment)))
    ELSE Raise("NotImplementedError")

\* varlena_field.set_value(...): neither Varlena_1B nor Varlena_4B nor
\* their base class defines set_value
Varlena_set_value(value) == Raise("AttributeError")

\* Filenode._serialize_varlena_field followed by varlena_field.to_bytes()
_serialize_varlena_field(field_def, field_value) ==
    IF Len(field_value) < Varlena_1B_VA_MAX_DATA_SIZE
    THEN Varlena_set_value(field_value)
    ELSE IF Len(field_value) < Varlena_1B_VA_MAX_DATA_SIZE
    THEN Varlena_set_value(field_value)
    ELSE Raise("ValueError")

\* Filenode._apply_item_nullmap_to_datatype_from_data: is_null of each field
_apply_item_nullmap_to_datatype_from_data(item_data) ==
    [i \in 1..Min(Len(field_defs), Len(item_data)) |-> item_data[i] = NULL]

RECURSIVE SerializeFields(_, _, _, _)
\* the loop of _serialize_data over the fields, from field i on
SerializeFields(item_data, is_null, i, serialized_data) ==
    IF i > Len(is_null) THEN Ok(serialized_data)
    ELSE IF is_null[i]
    THEN SerializeFields(item_data, is_null, i + 1, serialized_data)
    ELSE IF field_defs[i].length > 0
    THEN LET f == _serialize_fixed_len_field(field_defs[i], item_data[i])
         IN  IF f.err # "none" THEN f
             ELSE SerializeFields(item_data, is_null, i + 1,
                                  serialized_data \o f.b)
    ELSE IF field_defs[i].length = -1
    THEN LET v == _serialize_varlena_field(field_defs[i], item_data[i])
             one_b == Len(item_data[i]) < Varlena_1B_VA_MAX_DATA_SIZE
             with == serialized_data \o v.b
             pad == IF i + 1 <= Len(is_null) /\ one_b
                       /\ field_defs[i + 1].length # -1 /\ ~is_null[i + 1]
                    THEN Zeros(Ceil(Len(with), 4) * 4 - Len(with))
                    ELSE <<>>
         IN  IF v.err # "none" THEN v
             ELSE SerializeFields(item_data, is_null, i + 1, with \o pad)
    ELSE Raise("NotImplementedError")

RECURSIVE NullmapOf(_, _)
\* int(''.join(str(int(not f['is_null'])) for f in reversed(item_datatype)), 2)
NullmapOf(is_null, i) ==
    IF i > Len(is_null) THEN 0
    ELSE (IF is_null[i] THEN 0 ELSE 1) + 2 * NullmapOf(is_null, i + 1)

\* Lines 232-258 of _serialize_data: HEAP_HASNULL and the nullmap the
\* serializer leaves in item_header, for the is_null marks of the row
SerializedHeader(is_null, item_header) ==
    LET any == \E i \in 1..Len(is_null) : is_null[i]
    IN  [item_header EXCEPT
            !.t_infomask = IF any THEN SetFlag(@, HEAP_HASNULL)
                                  ELSE ClearFlag(@, HEAP_HASNULL),
            !.nullmap = IF any THEN NullmapOf(is_null, 1) ELSE 0]

\* Filenode._serialize_data(item_data, item_header); item_header is the
\* reference h into heap.  [none, data, heap]: none = TRUE when the broad
\* except logged an exception and the method returned None.
_serialize_data(item_data, h, heap) ==
    LET is_null == _apply_item_nullmap_to_datatype_from_data(item_data)
        ser     == SerializeFields(item_data, is_null, 1, <<>>)
    IN  IF ser.err # "none"
        THEN [none |-> TRUE, data |-> <<>>, heap |-> heap]
        ELSE [none |-> FALSE,
              data |-> ser.b,
              heap |-> [heap EXCEPT ![h] = SerializedHeader(is_null, @)]]

---------------------------------------------------------------------------
(* The row deserializer.  A record read is [value, is_null]; a value is    *)
(* [int |-> TRUE, v |-> an integer] or [int |-> FALSE, b |-> bytes].       *)

BytesValue(b) == [int |-> FALSE, v |-> 0, b |-> b]

IntValue(v) == [int |-> TRUE, v |-> v, b |-> <<>>]

\* The loop of _apply_item_nullmap_to_datatype_from_header over a schema of
\* n columns: is_null of each field
NullsFromHeader(n, item_header) ==
    [i \in 1..n |->
        IF HasFlag(item_header.t_infomask, HEAP_HASNULL)
        THEN (item_header.nullmap \div (2 ^ (i - 1))) % 2 = 0
        ELSE FALSE]

\* Filenode._apply_item_nullmap_to_datatype_from_header: is_null of each field
_apply_item_nullmap_to_datatype_from_header(item_header) ==
    NullsFromHeader(Len(field_defs), item_header)

\* Filenode._deserialize_fixed_len_field: [err, v]
_deserialize_fixed_len_field(field_def, field_bytes) ==
    IF field_bytes # <<>> /\ field_def.type \in PARSEABLE_TYPES
    THEN IF Len(field_bytes) # StructWidth(field_def.alignment)
         THEN [err |-> "struct.error", v |-> BytesValue(<<>>)]
         ELSE [err |-> "none", v |-> IntValue(UnpackSigned(field_bytes))]
    ELSE [err |-> "none", v |-> BytesValue(field_bytes)]

\* Varlena_1B._get_size / Varlena_4B._get_size of the header bytes
Varlena_get_size(one_b, field_bytes) ==
    IF one_b THEN (field_bytes[1] \div 2) % 128
    ELSE (field_bytes[1] \div 4) + 64 * field_bytes[2]
         + 16384 * field_bytes[3] + 4194304 * (field_bytes[4] % 128)

\* Filenode._deserialize_varlena_field: [err, one_b, value]
_deserialize_varlena_field(field_bytes) ==
    LET fail(e) == [err |-> e, one_b |-> FALSE, value |-> <<>>]
    IN  IF field_bytes = <<>> THEN fail("IndexError")
        ELSE IF field_bytes[1] = 1 THEN fail("NotImplementedError")
        ELSE IF field_bytes[1] % 2 = 1
        THEN [err |-> "none", one_b |-> TRUE,
              value |-> Slice(field_bytes, 1, Varlena_get_size(TRUE, field_bytes))]
        ELSE IF field_bytes[1] % 4 = 2 THEN fail("NotImplementedError")
        ELSE IF Len(field_bytes) < 4 THEN fail("struct.error")
        ELSE [err |-> "none", one_b |-> FALSE,
              value |-> Slice(field_bytes, 4, Varlena_get_size(FALSE, field_bytes))]

\* varlena_field.size: Varlena_1B and Varlena_4B have _get_size() and no
\* attribute named size
Varlena_size(varlena_field) == Raise("AttributeError")

RECURSIVE DeserializeFields(_, _, _, _, _)
\* the loop of _deserialize_data_datatype over the fields, from field i on
DeserializeFields(item_data, is_null, i, offset, deserialized_data) ==
    IF i > Len(is_null) THEN [err |-> "none", data |-> deserialized_data]
    ELSE IF is_null[i]
    THEN DeserializeFields(item_data, is_null, i + 1, offset,
             Append(deserialized_data,
                    [value |-> BytesValue(<<>>), is_null |-> TRUE]))
    ELSE IF field_defs[i].length > 0
    THEN LET f == _deserialize_fixed_len_field(
                      field_defs[i],
                      Slice(item_data, offset, offset + field_defs[i].length))
         IN  IF f.err # "none" THEN [err |-> f.err, data |-> <<>>]
             ELSE DeserializeFields(item_data, is_null, i + 1,
                      offset + field_defs[i].length,
                      Append(deserialized_data,
                             [value |-> f.v, is_null |-> FALSE]))
    ELSE IF field_defs[i].length = -1
    THEN LET v == _deserialize_varlena_field(SliceFrom(item_data, offset))
             size == Varlena_size(v)
         IN  IF v.err # "none" THEN [err |-> v.err, data |-> <<>>]
             ELSE IF size.err # "none" THEN [err |-> size.err, data |-> <<>>]
             ELSE LET length == size.b
                      pad == IF i + 1 <= Len(is_null) /\ v.one_b
                                /\ field_defs[i + 1].length # -1
                                /\ ~is_null[i + 1]
                             THEN Ceil(offset + length, 4) * 4 - (offset + length)
                             ELSE 0
                  IN  DeserializeFields(item_data, is_null, i + 1,
                          offset + length + pad,
                          Append(deserialized_data,
                                 [value |-> BytesValue(v.value),
                                  is_null |-> FALSE]))
    ELSE [err |-> "Exception", data |-> <<>>]

\* Filenode._deserialize_data: [none, data]; none = TRUE when the broad except
\* logged an exception and the method returned None
_deserialize_data(typed, item_data, item_header) ==
    IF ~typed
    THEN [none |-> FALSE,
          data |-> << [value |-> BytesValue(item_data), is_null |-> FALSE] >>]
    ELSE LET d == DeserializeFields(
                      item_data,
                      _apply_item_nullmap_to_datatype_from_header(item_header),
                      1, 0, <<>>)
         IN  [none |-> d.err # "none", data |-> d.data]

---------------------------------------------------------------------------
(* The update engine.  m = [pages, headers] is the segment in memory.      *)
(* An operation returns [pages, headers, err, branch]: the segment as the  *)
(* call leaves it, the exception that left it ("none": it returned) and    *)
(* the branch taken.                                                       *)

\* Python's seq[i] for a list of n elements: the position (1-based) read
PyIndex(i, n) == IF i >= 0 THEN i + 1 ELSE n + i + 1

\* seq[i] does not raise IndexError
PyIndexOk(i, n) == 0 - n <= i /\ i < n

Outcome(pgs, heap, err, branch) ==
    [pages |-> pgs, headers |-> heap, err |-> err, branch |-> branch]

_update_item_inline_first_slot(m, p, i, new_item_data, new_item_header) ==
    Outcome([m.pages EXCEPT
                ![p].item_ids[1].lp_len =
                    Len(new_item_data) + HeapTupleHeaderData_FIELD_SIZE
                    + m.headers[m.pages[p].items[i].header].nullmap_byte_size,
                ![p].items[i] = [header |-> new_item_header,
                                 data   |-> new_item_data]],
            m.headers, "none", "inline")

\* Filenode._update_item_inline; p, i: positions of the page and the item
_update_item_inline(m, p, i, new_item_data, new_item_header) ==
    Outcome([m.pages EXCEPT
                ![p].item_ids[i].lp_len =
                    Len(new_item_data) + HeapTupleHeaderData_FIELD_SIZE
                    + m.headers[m.pages[p].items[i].header].nullmap_byte_size,
                ![p].items[i] = [header |-> new_item_header,
                                 data   |-> new_item_data]],
            m.headers, "none", "inline")

\* Lines 425-428: new_item.header.t_infomask.flags |= HEAP_XMAX_INVALID |
\* HEAP_UPDATED
NewItemInfomask(flags) ==
    SetFlag(SetFlag(flags, HEAP_XMAX_INVALID), HEAP_UPDATED)

TargetInfomask_kept(flags) == flags

\* Lines 432-435: target_item.header.t_infomask.flags &= ~(HEAP_UPDATED |
\* HEAP_XMAX_INVALID)
TargetInfomask(flags) ==
    ClearFlag(ClearFlag(flags, HEAP_UPDATED), HEAP_XMAX_INVALID)

new_item_byte_length_exact(new_item_bytes) == Len(new_item_bytes)

\* Lines 456 and 487: math.ceil(len(new_item.to_bytes()) / 8) * 8
new_item_byte_length(new_item_bytes) == Ceil(Len(new_item_bytes), 8) * 8

_update_item_new_page_lower_kept(pgs, heap, p, new_item_id, new_item) ==
    LET source_page == pgs[p]
        nbl == new_item_byte_length(
                   Item_to_bytes(heap[new_item.header], new_item.data).b)
        header == [source_page.header EXCEPT
                      !.flags    = PD_UNDEFINED,
                      !.pd_upper = source_page.header.length - nbl]
        new_page == [header   |-> header,
                     item_ids |-> << [new_item_id EXCEPT
                                         !.lp_off = header.pd_upper] >>,
                     items    |-> << new_item >>]
    IN  Outcome(Append(pgs, new_page), heap, "none", "new_page")

\* Filenode._update_item_new_page; pgs: the pages with the target already
\* marked.  The page header is copied with the page; the attribute the code
\* sets to PD_UNDEFINED is `flags`, which PageHeaderData does not serialize.
_update_item_new_page(pgs, heap, p, new_item_id, new_item) ==
    LET source_page == pgs[p]
        nbl == new_item_byte_length(
                   Item_to_bytes(heap[new_item.header], new_item.data).b)
        header == [source_page.header EXCEPT
                      !.flags    = PD_UNDEFINED,
                      !.pd_lower = PageHeaderData_FIELD_SIZE + 4,
                      !.pd_upper = source_page.header.length - nbl]
        new_page == [header   |-> header,
                     item_ids |-> << [new_item_id EXCEPT
                                         !.lp_off = header.pd_upper] >>,
                     items    |-> << new_item >>]
    IN  Outcome(Append(pgs, new_page), heap, "none", "new_page")

\* The header object that line 421 makes the header of new_item: the object
\* update_item passed in, which is the target's own header (the copy that
\* copy.deepcopy made at line 415 is dropped).
NewItemHeader(target_header, new_item_header) == new_item_header

\* Filenode._update_item_new_item
_update_item_new_item(m, p, i, new_item_data, new_item_header) ==
    LET t  == m.pages[p].items[i].header
        n  == NewItemHeader(t, new_item_header)
        new_item_id0 == m.pages[p].item_ids[i]
        \* lines 425-428
        h1 == [m.headers EXCEPT
                 ![n].t_infomask = NewItemInfomask(@)]
        \* lines 432-437
        h2 == [h1 EXCEPT
                 ![t].t_infomask = TargetInfomask(@),
                 ![t].t_infomask2 = SetFlag(@, HEAP_HOT_UPDATED)]
        \* lines 441-442
        h3 == [h2 EXCEPT ![t].t_xmax = h2[t].t_xmin]
        h4 == [h3 EXCEPT ![t].t_xmin = @ - 1]
        \* line 445
        pgs1 == [m.pages EXCEPT ![p].item_ids[i].lp_flags = LP_DEAD]
        \* lines 447-448
        h5 == [h4 EXCEPT ![n].t_xmin = h4[t].t_xmax]
        h6 == [h5 EXCEPT ![n].t_xmax = 0]
        new_item == [header |-> n, data |-> new_item_data]
        nb == Item_to_bytes(h6[n], new_item_data)
        nbl == new_item_byte_length(nb.b)
        new_item_id == [new_item_id0 EXCEPT !.lp_len = nbl]
        hd == pgs1[p].header
    IN  IF nb.err # "none" THEN Outcome(pgs1, h6, nb.err, "raised")
        ELSE IF nbl > hd.pd_upper - hd.pd_lower
        THEN _update_item_new_page(pgs1, h6, p, new_item_id, new_item)
        ELSE Outcome(
                [pgs1 EXCEPT
                    ![p].header.pd_lower = @ + 4,
                    ![p].header.pd_upper = @ - nbl,
                    ![p].item_ids = Append(@,
                        [new_item_id EXCEPT
                            !.lp_off = hd.pd_upper - nbl]),
                    ![p].items = Append(@, new_item)],
                h6, "none", "new_item")

\* Filenode.read_item(page_id, item_id): [err, none, data].  none = TRUE: it
\* returned None (indexes out of range); err = "TypeError": _deserialize_data
\* returned None and print_data iterated over it.
read_item(m, typed, page_id, item_id) ==
    IF ~PyIndexOk(page_id, Len(m.pages))
    THEN [err |-> "none", none |-> TRUE, data |-> <<>>]
    ELSE LET p == PyIndex(page_id, Len(m.pages)) IN
    IF ~PyIndexOk(item_id, Len(m.pages[p].items))
    THEN [err |-> "none", none |-> TRUE, data |-> <<>>]
    ELSE LET item == m.pages[p].items[PyIndex(item_id, Len(m.pages[p].items))]
             data == _deserialize_data(typed, item.data, m.headers[item.header])
         IN  IF data.none
             THEN [err |-> "TypeError", none |-> TRUE, data |-> <<>>]
             ELSE [err |-> "none", none |-> FALSE, data |-> data.data]

\* the choice of the branch with >= in place of >
UpdateBranch_strict(m, p, i, new_item_data, new_item_header) ==
    IF Len(new_item_data) >= Len(m.pages[p].items[i].data)
    THEN _update_item_new_item(m, p, i, new_item_data, new_item_header)
    ELSE _update_item_inline(m, p, i, new_item_data, new_item_header)

\* Lines 389-394 of update_item: the choice of the branch
UpdateBranch(m, p, i, new_item_data, new_item_header) ==
    IF Len(new_item_data) > Len(m.pages[p].items[i].data)
    THEN _update_item_new_item(m, p, i, new_item_data, new_item_header)
    ELSE _update_item_inline(m, p, i, new_item_data, new_item_header)

\* Filenode.update_item(page_id, item_id, new_item_data).  new_item_data is
\* [list |-> TRUE, row |-> the CSV values] or [list |-> FALSE, bytes |-> the
\* bytes the Base64 text decodes to]; typed: type(self.datatype) is DataType.
update_item(m, typed, page_id, item_id, new_item_data) ==
    IF ~PyIndexOk(page_id, Len(m.pages))
    THEN Outcome(m.pages, m.headers, "none", "IndexError")
    ELSE LET p == PyIndex(page_id, Len(m.pages)) IN
    IF ~PyIndexOk(item_id, Len(m.pages[p].items))
    THEN Outcome(m.pages, m.headers, "none", "IndexError")
    ELSE LET i == PyIndex(item_id, Len(m.pages[p].items))
             h == m.pages[p].items[i].header
         IN
    IF new_item_data.list
    THEN IF ~typed
         THEN Outcome(m.pages, m.headers, "Exception", "raised")
         ELSE IF Len(field_defs) # Len(new_item_data.row)
         THEN Outcome(m.pages, m.headers, "Exception", "raised")
         ELSE LET s == _serialize_data(new_item_data.row, h, m.headers)
              IN  IF s.none
                  THEN Outcome(m.pages, s.heap, "TypeError", "raised")
                  ELSE UpdateBranch([pages |-> m.pages, headers |-> s.heap],
                                    p, i, s.data, h)
    ELSE UpdateBranch(m, p, i, new_item_data.bytes, h)

---------------------------------------------------------------------------
(* Loading and saving a segment *)

RECURSIVE ParsePages(_, _)
ParsePages(filenode_bytes, page_offset) ==
    IF page_offset >= Len(filenode_bytes) THEN <<>>
    ELSE LET page == Page_init(page_offset, filenode_bytes)
         IN  <<page>> \o ParsePages(filenode_bytes,
                                    page_offset + page.header.length)

\* The segment a file holds: its pages, each built by Page.__init__(offset,
\* filenode_bytes) at its offset, every tuple with a header object of its own
SegmentOf(filenode_bytes) ==
    EnterHeap(ParsePages(filenode_bytes, 0), 1,
              [pages |-> <<>>, headers |-> <<>>])

\* Filenode.__init__(filenode_path) on a file of these bytes.  Line 30 calls
\* Page(filenode_bytes, page_offset) while Page.__init__ declares (offset,
\* filenode_bytes): the first page built slices a number and raises
\* TypeError.  An empty file builds no page.
Filenode_init(filenode_bytes) ==
    IF 0 < Len(filenode_bytes)
    THEN [err |-> "TypeError", pages |-> <<>>, headers |-> <<>>]
    ELSE [err |-> "none", pages |-> <<>>, headers |-> <<>>]

\* Filenode.save_to_path: the bytes written, or the exception raised
save_to_path(m) == PagesBytes(m.pages, m.headers, 1)

---------------------------------------------------------------------------
(* Bounds and inputs of the runs *)

\* update_item calls in a run
MaxUpdates == 2
\* the page indexes tried are -1..MaxPageId, the item indexes -1..MaxItemId
MaxPageId == 1
MaxItemId == 1

Samples == 1..4

PageIds == -1..MaxPageId

ItemIds == -1..MaxItemId

\* a raw payload of n bytes
RawPayload(n) == [k \in 1..n |-> 64 + k]

RawInputs == {[list |-> FALSE, bytes |-> RawPayload(n)] : n \in {4, 6, 13, 20}}

\* CSV rows: 42,NULL,43   NULL,NULL,NULL   42,ab,43   42,NULL
RowInputs ==
    {[list |-> TRUE, row |-> r] :
        r \in { << <<52, 50>>, NULL, <<52, 51>> >>,
                << NULL, NULL, NULL >>,
                << <<52, 50>>, <<97, 98>>, <<52, 51>> >>,
                << <<52, 50>>, NULL >> }}

---------------------------------------------------------------------------
(* The state machine *)

VARIABLES
    sample,     \* the number of the sample segment the run started from
    typed,      \* TRUE: the Filenode has a DataType; FALSE: DataTypeRaw
    pages,      \* Filenode.pages
    headers,    \* the heap of HeapTupleHeaderData objects
    pc,         \* "open", "saved", "reopened"
    err,        \* the exception that ended the last call, or "none"
    written,    \* the bytes save_to_path wrote
    op,         \* the last update_item call and the branch it took
    prev,       \* the segment before the last update_item call
    nupd,       \* update_item calls so far
    cin,        \* the value handed to a codec on its own
    cout        \* what the codec made of it

vars == <<sample, typed, pages, headers, pc, err, written, op, prev, nupd,
          cin, cout>>

mem == [pages |-> pages, headers |-> headers]

NoOp == [page_id |-> 0, item_id |-> 0, data |-> [list |-> FALSE, bytes |-> <<>>],
         branch |-> "none"]

\* no codec runs on its own while a segment is edited
NoCodec == [kind |-> "none", stage |-> "in"]

\* A run starts with a sample segment in memory: its pages as Page.__init__
\* builds them, the way the loader of postgresql_filenode_editor.py (line 467)
\* calls it.  The loader of filenode.py is Filenode_init; Reopen applies it.
Init ==
    /\ sample \in Samples
    /\ typed \in BOOLEAN
    /\ (typed = FALSE => sample = 1)
    /\ pages = SegmentOf(SampleFile(sample)).pages
    /\ headers = SegmentOf(SampleFile(sample)).headers
    /\ pc = "open"
    /\ err = "none"
    /\ written = <<>>
    /\ op = NoOp
    /\ prev = [pages |-> <<>>, headers |-> <<>>]
    /\ nupd = 0
    /\ cin = NoCodec
    /\ cout = NoCodec

\* One update_item call
Update(page_id, item_id, new_item_data) ==
    /\ pc = "open"
    /\ err = "none"
    /\ nupd < MaxUpdates
    /\ LET r == update_item(mem, typed, page_id, item_id, new_item_data)
       IN  /\ pages' = r.pages
           /\ headers' = r.headers
           /\ err' = r.err
           /\ op' = [page_id |-> page_id, item_id |-> item_id,
                     data |-> new_item_data, branch |-> r.branch]
    /\ prev' = mem
    /\ nupd' = nupd + 1
    /\ UNCHANGED <<sample, typed, pc, written, cin, cout>>

UpdateRaw ==
    \E page_id \in PageIds, item_id \in ItemIds, d \in RawInputs :
        Update(page_id, item_id, d)

UpdateTyped ==
    \E page_id \in PageIds, item_id \in ItemIds, d \in RowInputs :
        Update(page_id, item_id, d)

\* filenode.save_to_path(new_path)
Save ==
    /\ pc = "open"
    /\ err = "none"
    /\ LET r == save_to_path(mem)
       IN  /\ written' = r.b
           /\ err' = r.err
    /\ pc' = "saved"
    /\ UNCHANGED <<sample, typed, pages, headers, op, prev, nupd, cin, cout>>

\* filenode = Filenode(new_path, datatype): the assignment happens only when
\* the constructor returns
Reopen ==
    /\ pc = "saved"
    /\ err = "none"
    /\ LET r == Filenode_init(written)
       IN  /\ err' = r.err
           /\ pages' = IF r.err = "none" THEN r.pages ELSE pages
           /\ headers' = IF r.err = "none" THEN r.headers ELSE headers
    /\ pc' = "reopened"
    /\ UNCHANGED <<sample, typed, written, op, prev, nupd, cin, cout>>

Next == UpdateRaw \/ UpdateTyped \/ Save \/ Reopen

Spec == Init /\ [][Next]_vars

---------------------------------------------------------------------------
(* The codecs on their own: a value is drawn, encoded and decoded again.   *)
(* cin is the value, cout what has been made of it so far (stage "in":     *)
(* nothing yet, "encoded", "decoded").                                     *)

\* the largest lp_off and lp_len a line pointer holds: 0x7fff
LP_FIELD_MAX == 32767

LpInputs ==
    {[kind |-> "lp", lp |-> [lp_off |-> o, lp_flags |-> f, lp_len |-> l]] :
        o \in {0, 1, 184, LP_FIELD_MAX},
        f \in {LP_UNUSED, LP_NORMAL, LP_REDIRECT, LP_DEAD},
        l \in {0, 1, 36, LP_FIELD_MAX}}

\* a str of n characters 'a'
VarlenaText(n) == [k \in 1..n |-> 97]

\* values for a varlena column, shorter than Varlena_1B._VA_MAX_DATA_SIZE
\* and not
VarlenaInputs ==
    {[kind |-> "varlena", p |-> VarlenaText(n)] :
        n \in {0, 1, 2, Varlena_1B_VA_MAX_DATA_SIZE - 1,
               Varlena_1B_VA_MAX_DATA_SIZE, Varlena_1B_VA_MAX_DATA_SIZE + 1,
               200}}

\* stored varlenas: a 1-byte header (size << 1 | 1) or a 4-byte header
\* (size << 2), size counting the header, then the value
VarlenaBytesInputs ==
    {[kind |-> "varlena_bytes", p |-> VarlenaText(n),
      b |-> <<2 * (n + 1) + 1>> \o VarlenaText(n)] :
        n \in {0, 1, 2, Varlena_1B_VA_MAX_DATA_SIZE - 1}}
    \cup
    {[kind |-> "varlena_bytes", p |-> VarlenaText(n),
      b |-> Pack(4 * (n + 4), 4) \o VarlenaText(n)] :
        n \in {Varlena_1B_VA_MAX_DATA_SIZE, 200}}

\* the most null attributes in a row handed to the null bitmap codec
MaxNulls == 2

\* rows of n columns whose null attributes are S, written over a target
\* tuple that has a null bitmap or has none
NullsInputs ==
    {[kind |-> "nulls", n |-> n, S |-> S, bitmap |-> bm] :
        n \in {3, 9}, S \in SUBSET (1..9), bm \in BOOLEAN}

\* str.encode('utf-8') of one character, given as its code point (no
\* surrogate among the inputs)
Utf8Char(c) ==
    IF c < 128 THEN <<c>>
    ELSE IF c < 2048 THEN <<192 + (c \div 64), 128 + (c % 64)>>
    ELSE IF c < 65536
    THEN <<224 + (c \div 4096), 128 + ((c \div 64) % 64), 128 + (c % 64)>>
    ELSE <<240 + (c \div 262144), 128 + ((c \div 4096) % 64),
           128 + ((c \div 64) % 64), 128 + (c % 64)>>

RECURSIVE Utf8(_)
\* str.encode('utf-8') of a str given as the sequence of its code points
Utf8(str) ==
    IF str = <<>> THEN <<>>
    ELSE IF Len(str) = 1 THEN Utf8Char(str[1])
    ELSE LET half == Len(str) \div 2
         IN  Utf8(SubSeq(str, 1, half)) \o Utf8(SubSeq(str, half + 1, Len(str)))

\* Varlena_1B._set_size(new_size) on a header byte: the header byte after
\* it, as a sequence of one number, or the exception raised
Varlena_1B_set_size(va_header, new_size) ==
    IF new_size >= Varlena_1B_VA_MAX_DATA_SIZE THEN Raise("ValueError")
    ELSE Ok(<<BitOr(va_header, ((new_size + 1) % 128) * 2)>>)

\* The varlena branch of _serialize_data in postgresql_filenode_editor.py
\* (lines 600-615) for a str given as its code points: the choice of the
\* variant by len(item_data[i]), _set_size(len(item_data[i])), value =
\* item_data[i].encode('utf-8'), to_bytes()
serialize_varlena_by_len(str) ==
    IF Len(str) < Varlena_1B_VA_MAX_DATA_SIZE
    THEN LET h == Varlena_1B_set_size(1, Len(str))
         IN  IF h.err # "none" THEN h ELSE Ok(h.b \o Utf8(str))
    ELSE IF Len(str) < Varlena_1B_VA_MAX_DATA_SIZE
    THEN Raise("ValueError")
    ELSE Raise("ValueError")

\* strs with characters of 1, 2, 3 and 4 bytes in UTF-8: 'ab', 'e' with an
\* acute accent, the euro sign and 'a', a character of plane 1, and n times
\* 'e' with an acute accent
TextInputs ==
    {[kind |-> "text", str |-> t] :
        t \in { <<97, 98>>, <<233>>, <<8364, 97>>, <<66376>> }}
    \cup {[kind |-> "text", str |-> [k \in 1..n |-> 233]] :
            n \in {Varlena_1B_VA_MAX_DATA_SIZE \div 2,
                   Varlena_1B_VA_MAX_DATA_SIZE - 1}}

\* rows of as many values as the schema has columns, for the row serializer
RowCodecInputs ==
    {[kind |-> "row", row |-> r.row] :
        r \in {x \in RowInputs : Len(x.row) = Len(field_defs)}}

\* stored payloads of the schema with the null marks of their headers and
\* the rows they hold, for the row deserializer
RowBytesInputs ==
    {[kind |-> "row_bytes", b |-> PayloadA,
      is_null |-> <<FALSE, FALSE, FALSE>>,
      row |-> << <<49>>, <<97, 98>>, <<50>> >>],
     [kind |-> "row_bytes", b |-> PayloadB,
      is_null |-> <<FALSE, TRUE, TRUE>>,
      row |-> << <<55>>, NULL, NULL >>],
     [kind |-> "row_bytes", b |-> PayloadC,
      is_null |-> <<FALSE, FALSE, FALSE>>,
      row |-> << <<51>>, [i \in 1..115 |-> 120], <<52>> >>]}

CodecInputs ==
    LpInputs \cup VarlenaInputs \cup VarlenaBytesInputs
    \cup RowCodecInputs \cup RowBytesInputs \cup TextInputs
    \cup {c \in NullsInputs :
             c.S \subseteq 1..c.n /\ Cardinality(c.S) <= MaxNulls}

\* The header of a stored tuple of natts int4 columns, as
\* HeapTupleHeaderData.__init__ reads it: with a null bitmap in which only
\* attribute 1 is null (t_hoff = 23 + bitmap bytes, rounded up to 8), or
\* without one (t_hoff = 24)
CodecTarget(natts, bitmap) ==
    LET nbytes == (natts + 7) \div 8
        t_hoff == IF bitmap THEN ((23 + nbytes + 7) \div 8) * 8 ELSE 24
        fixed  == Pack(5, 4) \o Pack(0, 4) \o Pack(0, 4)
                  \o Pack(0, 2) \o Pack(0, 2) \o Pack(1, 2)
                  \o Pack(natts, 2)
                  \o Pack(HEAP_XMIN_COMMITTED + HEAP_XMAX_INVALID
                          + (IF bitmap THEN HEAP_HASNULL ELSE 0), 2)
                  \o <<t_hoff>>
                  \o (IF bitmap THEN Pack(2 ^ natts - 2, nbytes) ELSE <<0>>)
    IN  HeapTupleHeaderData_init(0, fixed \o Zeros(t_hoff - Len(fixed)))

RECURSIVE CodecPayload(_, _, _)
\* the payload of a row of n int4 columns, value 1 in every column not in S
CodecPayload(n, S, i) ==
    IF i > n THEN <<>>
    ELSE (IF i \in S THEN <<>> ELSE <<1, 0, 0, 0>>) \o CodecPayload(n, S, i + 1)

InitCodec ==
    /\ sample = 1
    /\ typed = TRUE
    /\ pages = <<>>
    /\ headers = <<>>
    /\ pc = "codec"
    /\ err = "none"
    /\ written = <<>>
    /\ op = NoOp
    /\ prev = [pages |-> <<>>, headers |-> <<>>]
    /\ nupd = 0
    /\ cin \in CodecInputs
    /\ cout = NoCodec

CodecStep(out) ==
    /\ cout' = out
    /\ UNCHANGED <<sample, typed, pages, headers, pc, err, written, op, prev,
                   nupd, cin>>

\* ItemIdData.to_bytes
ItemIdEncode ==
    /\ pc = "codec" /\ cin.kind = "lp" /\ cout.stage = "in"
    /\ CodecStep([kind |-> "lp", stage |-> "encoded",
                  b |-> ItemIdData_to_bytes(cin.lp)])

\* ItemIdData(item_id_bytes)
ItemIdDecode ==
    /\ pc = "codec" /\ cin.kind = "lp" /\ cout.stage = "encoded"
    /\ CodecStep([kind |-> "lp", stage |-> "decoded", b |-> cout.b,
                  lp |-> ItemIdData_init(cout.b)])

\* _serialize_varlena_field(field_def, value).to_bytes()
VarlenaEncode ==
    /\ pc = "codec" /\ cin.kind = "varlena" /\ cout.stage = "in"
    /\ LET r == _serialize_varlena_field(field_defs[2], cin.p)
       IN  CodecStep([kind |-> "varlena", stage |-> "encoded",
                      err |-> r.err, b |-> r.b])

\* _deserialize_varlena_field(field_bytes), of encoded or of stored bytes
VarlenaDecode ==
    /\ pc = "codec"
    /\ \/ cin.kind = "varlena" /\ cout.stage = "encoded" /\ cout.err = "none"
       \/ cin.kind = "varlena_bytes" /\ cout.stage = "in"
    /\ LET b == IF cin.kind = "varlena" THEN cout.b ELSE cin.b
           d == _deserialize_varlena_field(b)
       IN  CodecStep([kind |-> "varlena", stage |-> "decoded",
                      err |-> d.err, b |-> b, one_b |-> d.one_b,
                      value |-> d.value,
                      size |-> IF d.err = "none"
                               THEN Varlena_get_size(d.one_b, b) ELSE 0])

\* The header part of _serialize_data on the target's header, then
\* Item.to_bytes of the tuple
NullsSerialize ==
    /\ pc = "codec" /\ cin.kind = "nulls" /\ cout.stage = "in"
    /\ LET h == SerializedHeader([i \in 1..cin.n |-> i \in cin.S],
                                 CodecTarget(cin.n, cin.bitmap))
           t == Item_to_bytes(h, CodecPayload(cin.n, cin.S, 1))
       IN  CodecStep([kind |-> "nulls", stage |-> "encoded",
                      err |-> t.err, b |-> t.b])

\* HeapTupleHeaderData(offset, bytes), then
\* _apply_item_nullmap_to_datatype_from_header
NullsParse ==
    /\ pc = "codec" /\ cin.kind = "nulls" /\ cout.stage = "encoded"
    /\ cout.err = "none"
    /\ LET h == HeapTupleHeaderData_init(0, cout.b)
       IN  CodecStep([kind |-> "nulls", stage |-> "decoded", err |-> "none",
                      b |-> cout.b,
                      hasnull |-> HasFlag(h.t_infomask, HEAP_HASNULL),
                      nullmap |-> h.nullmap,
                      nulls |-> NullsFromHeader(cin.n, h)])

\* The loop of _serialize_data over the fields of a row
RowSerialize ==
    /\ pc = "codec" /\ cin.kind = "row" /\ cout.stage = "in"
    /\ LET r == SerializeFields(
                    cin.row,
                    _apply_item_nullmap_to_datatype_from_data(cin.row),
                    1, <<>>)
       IN  CodecStep([kind |-> "row", stage |-> "encoded",
                      err |-> r.err, b |-> r.b])

\* The loop of _deserialize_data_datatype over the fields, of serialized or
\* of stored bytes
RowDeserialize ==
    /\ pc = "codec"
    /\ \/ cin.kind = "row" /\ cout.stage = "encoded" /\ cout.err = "none"
       \/ cin.kind = "row_bytes" /\ cout.stage = "in"
    /\ LET b == IF cin.kind = "row" THEN cout.b ELSE cin.b
           n == IF cin.kind = "row"
                THEN _apply_item_nullmap_to_datatype_from_data(cin.row)
                ELSE cin.is_null
           d == DeserializeFields(b, n, 1, 0, <<>>)
       IN  CodecStep([kind |-> "row", stage |-> "decoded",
                      err |-> d.err, b |-> b, data |-> d.data])

\* The varlena branch of _serialize_data of postgresql_filenode_editor.py
TextEncode ==
    /\ pc = "codec" /\ cin.kind = "text" /\ cout.stage = "in"
    /\ LET r == serialize_varlena_by_len(cin.str)
       IN  CodecStep([kind |-> "text", stage |-> "encoded",
                      err |-> r.err, b |-> r.b])

NextCodec ==
    \/ TextEncode
    \/ ItemIdEncode \/ ItemIdDecode
    \/ VarlenaEncode \/ VarlenaDecode
    \/ NullsSerialize \/ NullsParse
    \/ RowSerialize \/ RowDeserialize

SpecCodec == InitCodec /\ [][NextCodec]_vars

---------------------------------------------------------------------------
(* Loading a file page by page: the loop of Filenode.__init__.  written is *)
(* the file, cin the loader and its page_offset, pages and headers the     *)
(* pages built so far.                                                     *)

\* the most pages a file to load has
MaxFilePages == 2

\* pages a file is made of: two sample pages, a page with an unused slot and
\* a page of zeros
LoadPageKinds ==
    { SamplePage(0, <<TupleA, TupleB>>),
      SamplePage(4, <<TupleB>>),
      SamplePage(0, << <<>>, TupleA >>),
      Zeros(SamplePageLength) }

RECURSIVE LoadFiles(_)
\* the files of at most n pages, the empty file included
LoadFiles(n) ==
    IF n = 0 THEN { <<>> }
    ELSE LoadFiles(n - 1)
         \cup {f \o pg : f \in LoadFiles(n - 1), pg \in LoadPageKinds}

\* the loaders: Filenode.__init__ of filenode/filenode.py ("package") and of
\* postgresql_filenode_editor.py ("script")
Loaders == {"package", "script"}

InitLoad ==
    /\ sample = 1
    /\ typed = FALSE
    /\ pages = <<>>
    /\ headers = <<>>
    /\ pc = "loading"
    /\ err = "none"
    /\ written \in LoadFiles(MaxFilePages)
    /\ op = NoOp
    /\ prev = [pages |-> <<>>, headers |-> <<>>]
    /\ nupd = 0
    /\ cin \in {[kind |-> "load", loader |-> l, page_offset |-> 0] :
                    l \in Loaders}
    /\ cout = NoCodec

\* One iteration of `while page_offset < len(filenode_bytes)`.  The package
\* calls Page(filenode_bytes, page_offset) (filenode.py:30), which raises
\* TypeError; the script calls Page(page_offset, filenode_bytes) (line 467),
\* appends the page and adds page.header.length to page_offset.  The pages
\* kept apart are at most one more than the file has.
LoadPage ==
    /\ pc = "loading"
    /\ cin.kind = "load"
    /\ cin.page_offset < Len(written)
    /\ Len(pages) <= MaxFilePages
    /\ IF cin.loader = "package"
       THEN /\ err' = Filenode_init(written).err
            /\ pc' = "failed"
            /\ UNCHANGED <<pages, headers, cin>>
       ELSE LET page == Page_init(cin.page_offset, written)
                m == EnterHeap(<<page>>, 1, mem)
            IN  /\ pages' = m.pages
                /\ headers' = m.headers
                /\ cin' = [cin EXCEPT !.page_offset = @ + page.header.length]
                /\ UNCHANGED <<err, pc>>
    /\ UNCHANGED <<sample, typed, written, op, prev, nupd, cout>>

\* The loop ends: page_offset has reached the end of the file
LoadDone ==
    /\ pc = "loading"
    /\ cin.kind = "load"
    /\ cin.page_offset >= Len(written)
    /\ pc' = "loaded"
    /\ UNCHANGED <<sample, typed, pages, headers, err, written, op, prev,
                   nupd, cin, cout>>

NextLoad == LoadPage \/ LoadDone

SpecLoad == InitLoad /\ [][NextLoad]_vars

---------------------------------------------------------------------------
(* The last update_item call, seen from the state it left: op is the call, *)
(* prev the segment before it, pages and headers the segment after it.     *)

\* the segment in memory is the one the last update_item call left
AfterUpdate == pc # "reopened" /\ op.branch \notin {"none", "IndexError"}

\* the positions of the page and the slot the call addressed
OpPage == PyIndex(op.page_id, Len(prev.pages))

OpItem == PyIndex(op.item_id, Len(prev.pages[OpPage].items))

\* the call took the new-item path and returned
NewItemUpdate == AfterUpdate /\ op.branch \in {"new_item", "new_page"}

InlineUpdate == AfterUpdate /\ op.branch = "inline"

\* the target's header before the call, and the old tuple's header after it
TargetBefore == prev.headers[prev.pages[OpPage].items[OpItem].header]

OldTuple == headers[pages[OpPage].items[OpItem].header]

\* the new tuple: the last item of the target page, or the item of the page
\* the call appended
NewItem ==
    IF op.branch = "new_item"
    THEN pages[OpPage].items[Len(pages[OpPage].items)]
    ELSE pages[Len(pages)].items[1]

NewTuple == headers[NewItem.header]

\* the new tuple's serialized size rounded up to a multiple of 8
NewAlignedSize ==
    ((Len(Item_to_bytes(NewTuple, NewItem.data).b) + 7) \div 8) * 8

\* the free gap of the target page before the call
PrevGap == prev.pages[OpPage].header.pd_upper - prev.pages[OpPage].header.pd_lower

\* lp_off and lp_len of the slots 1..n of the target page are what they were
SlotsKept(n, except) ==
    \A k \in 1..n :
        k # except =>
            /\ pages[OpPage].item_ids[k].lp_off
                   = prev.pages[OpPage].item_ids[k].lp_off
            /\ pages[OpPage].item_ids[k].lp_len
                   = prev.pages[OpPage].item_ids[k].lp_len

\* file with the 2-byte checksum field of every page header zeroed (all the
\* sample pages are SamplePageLength long)
ZeroChecksums(file) ==
    [k \in 1..Len(file) |->
        IF (k - 1) % SamplePageLength \in {8, 9} THEN 0 ELSE file[k]]

\* the records a CSV row stands for
ExpectedRecords(row) ==
    [k \in 1..Len(row) |->
        IF row[k] = NULL
        THEN [value |-> BytesValue(<<>>), is_null |-> TRUE]
        ELSE IF field_defs[k].length > 0
        THEN [value |-> IntValue(PyInt(row[k]).v), is_null |-> FALSE]
        ELSE [value |-> BytesValue(row[k]), is_null |-> FALSE]]

---------------------------------------------------------------------------
(* Properties *)

\* C1: a segment that is loaded and saved with no update_item call in
\* between is written back byte for byte, except that the checksum field of
\* every page header is zero.
C1_SaveWritesInputBytes ==
    (pc = "saved" /\ nupd = 0) =>
        /\ err = "none"
        /\ written = ZeroChecksums(SampleFile(sample))

\* C2: after a new-item update of a target whose t_xmin was X, the old tuple
\* has t_xmin = X - 1 and t_xmax = X.
C2_OldTupleXminXmax ==
    NewItemUpdate =>
        /\ OldTuple.t_xmin = TargetBefore.t_xmin - 1
        /\ OldTuple.t_xmax = TargetBefore.t_xmin

\* C3: after a new-item update the new tuple's t_infomask has
\* HEAP_XMAX_INVALID and HEAP_UPDATED set.
C3_NewTupleInfomask ==
    NewItemUpdate =>
        /\ HasFlag(NewTuple.t_infomask, HEAP_XMAX_INVALID)
        /\ HasFlag(NewTuple.t_infomask, HEAP_UPDATED)

\* C4: after a new-item update the new tuple's t_xmin equals the old tuple's
\* t_xmax as the update left it, which is the target's original t_xmin, and
\* the new tuple's t_xmax is 0.
C4_NewTupleXminXmax ==
    NewItemUpdate =>
        /\ NewTuple.t_xmin = OldTuple.t_xmax
        /\ NewTuple.t_xmin = TargetBefore.t_xmin
        /\ NewTuple.t_xmax = 0

\* C5: after a new-item update the old line pointer is LP_DEAD and the old
\* tuple has HEAP_HOT_UPDATED set in t_infomask2 and HEAP_UPDATED and
\* HEAP_XMAX_INVALID cleared in t_infomask.
C5_OldVersionSuperseded ==
    NewItemUpdate =>
        /\ pages[OpPage].item_ids[OpItem].lp_flags = LP_DEAD
        /\ HasFlag(OldTuple.t_infomask2, HEAP_HOT_UPDATED)
        /\ ~HasFlag(OldTuple.t_infomask, HEAP_UPDATED)
        /\ ~HasFlag(OldTuple.t_infomask, HEAP_XMAX_INVALID)

\* a new-item update of a live target that had both flags set and was not
\* marked HOT-updated
C5_Witness ==
    /\ NewItemUpdate
    /\ prev.pages[OpPage].item_ids[OpItem].lp_flags = LP_NORMAL
    /\ HasFlag(TargetBefore.t_infomask, HEAP_UPDATED)
    /\ HasFlag(TargetBefore.t_infomask, HEAP_XMAX_INVALID)
    /\ ~HasFlag(TargetBefore.t_infomask2, HEAP_HOT_UPDATED)

\* C6: an inline update leaves pd_lower, pd_upper and the number of slots of
\* the page, and lp_off and lp_len of every slot but the target, unchanged.
C6_InlineFrame ==
    InlineUpdate =>
        /\ pages[OpPage].header.pd_lower = prev.pages[OpPage].header.pd_lower
        /\ pages[OpPage].header.pd_upper = prev.pages[OpPage].header.pd_upper
        /\ Len(pages[OpPage].item_ids) = Len(prev.pages[OpPage].item_ids)
        /\ Len(pages[OpPage].items) = Len(prev.pages[OpPage].items)
        /\ SlotsKept(Len(prev.pages[OpPage].item_ids), OpItem)

\* an inline update with a shorter payload, on a page with another slot,
\* that changed the target's lp_len
C6_Witness ==
    /\ InlineUpdate
    /\ Len(prev.pages[OpPage].item_ids) >= 2
    /\ Len(pages[OpPage].items[OpItem].data)
           < Len(prev.pages[OpPage].items[OpItem].data)
    /\ pages[OpPage].item_ids[OpItem].lp_len
           # prev.pages[OpPage].item_ids[OpItem].lp_len

\* C7: a new-item update whose tuple fits in the free gap adds 4 to
\* pd_lower, takes the tuple's serialized size rounded up to a multiple of 8
\* from pd_upper, appends one slot with lp_off = the new pd_upper and lp_len
\* = that size, and leaves lp_off and lp_len of the existing slots unchanged.
C7_NewItemFits ==
    (NewItemUpdate /\ NewAlignedSize <= PrevGap) =>
        /\ op.branch = "new_item"
        /\ pages[OpPage].header.pd_lower
               = prev.pages[OpPage].header.pd_lower + 4
        /\ pages[OpPage].header.pd_upper
               = prev.pages[OpPage].header.pd_upper - NewAlignedSize
        /\ Len(pages[OpPage].item_ids) = Len(prev.pages[OpPage].item_ids) + 1
        /\ pages[OpPage].item_ids[Len(pages[OpPage].item_ids)].lp_off
               = pages[OpPage].header.pd_upper
        /\ pages[OpPage].item_ids[Len(pages[OpPage].item_ids)].lp_len
               = NewAlignedSize
        /\ SlotsKept(Len(prev.pages[OpPage].item_ids), 0)

\* a fitting new-item update on a page of two slots, of a tuple whose size
\* is not a multiple of 8
C7_Witness ==
    /\ NewItemUpdate
    /\ NewAlignedSize <= PrevGap
    /\ Len(prev.pages[OpPage].item_ids) >= 2
    /\ Len(Item_to_bytes(NewTuple, NewItem.data).b) % 8 # 0

\* C8: every page keeps HEADER_SIZE <= pd_lower <= pd_upper <= page length
\* and (pd_lower - HEADER_SIZE) % 4 = 0 through any sequence of update_item
\* calls (every sample page starts that way).
C8_PageGeometry ==
    \A k \in 1..Len(pages) :
        /\ PageHeaderData_FIELD_SIZE <= pages[k].header.pd_lower
        /\ pages[k].header.pd_lower <= pages[k].header.pd_upper
        /\ pages[k].header.pd_upper <= pages[k].header.length
        /\ (pages[k].header.pd_lower - PageHeaderData_FIELD_SIZE) % 4 = 0

\* C9: a new-item update whose tuple does not fit in the free gap appends
\* one page; that page has one slot, holding the updated tuple, pd_lower =
\* HEADER_SIZE + 4, pd_upper = page length - aligned tuple size and lp_off =
\* pd_upper; the original page keeps its slots, pd_lower and pd_upper, and
\* the target slot is LP_DEAD.
C9_NewPage ==
    (NewItemUpdate /\ NewAlignedSize > PrevGap) =>
        LET new_page == pages[Len(pages)]
        IN  /\ op.branch = "new_page"
            /\ Len(pages) = Len(prev.pages) + 1
            /\ Len(new_page.item_ids) = 1
            /\ Len(new_page.items) = 1
            /\ ~op.data.list => new_page.items[1].data = op.data.bytes
            /\ new_page.header.pd_lower = PageHeaderData_FIELD_SIZE + 4
            /\ new_page.header.pd_upper
                   = new_page.header.length - NewAlignedSize
            /\ new_page.item_ids[1].lp_off = new_page.header.pd_upper
            /\ Len(pages[OpPage].item_ids) = Len(prev.pages[OpPage].item_ids)
            /\ Len(pages[OpPage].items) = Len(prev.pages[OpPage].items)
            /\ SlotsKept(Len(prev.pages[OpPage].item_ids), 0)
            /\ pages[OpPage].header.pd_lower
                   = prev.pages[OpPage].header.pd_lower
            /\ pages[OpPage].header.pd_upper
                   = prev.pages[OpPage].header.pd_upper
            /\ pages[OpPage].item_ids[OpItem].lp_flags = LP_DEAD

\* a new-item update of a live slot on a page of two slots whose free gap
\* is too small for the tuple
C9_Witness ==
    /\ NewItemUpdate
    /\ NewAlignedSize > PrevGap
    /\ PrevGap > 0
    /\ Len(prev.pages[OpPage].item_ids) >= 2
    /\ prev.pages[OpPage].item_ids[OpItem].lp_flags = LP_NORMAL

\* C10: update_item with a row the schema accepts, save_to_path and
\* reopening with the schema all succeed, and read_item on the slot that
\* holds the updated tuple (the target slot after an inline update, the last
\* slot of the last page otherwise) returns the row: one record per column,
\* values and is_null marks as supplied.
C10_TypedRoundTrip ==
    (/\ typed
     /\ nupd = 1
     /\ op.data.list
     /\ op.branch # "IndexError"
     /\ Len(op.data.row) = Len(field_defs)) =>
        /\ err = "none"
        /\ pc = "reopened" =>
              LET r == IF op.branch = "inline"
                       THEN read_item(mem, typed, op.page_id, op.item_id)
                       ELSE read_item(mem, typed, -1, -1)
              IN  /\ r.err = "none"
                  /\ ~r.none
                  /\ r.data = ExpectedRecords(op.data.row)

\* The item read_item(page_id, item_id) reads in raw mode from the segment
\* the written file holds
RawReadBack(page_id, item_id) ==
    read_item(SegmentOf(written), FALSE, page_id, item_id)

\* C11: after one raw update_item, save_to_path and reopening the file in
\* raw mode, read_item on the slot that holds the updated tuple (the target
\* slot after an inline update, the last slot of the target page after a
\* new-item update, the only slot of the last page after a new-page update)
\* returns exactly the bytes that were supplied; saving and reopening
\* succeed.
C11_RawRoundTrip ==
    (/\ ~typed
     /\ nupd = 1
     /\ ~op.data.list
     /\ op.branch \in {"inline", "new_item", "new_page"}
     /\ pc \in {"saved", "reopened"}) =>
        /\ err = "none"
        /\ LET r == IF op.branch = "inline"
                    THEN RawReadBack(op.page_id, op.item_id)
                    ELSE IF op.branch = "new_item"
                    THEN RawReadBack(op.page_id, -1)
                    ELSE RawReadBack(-1, 0)
           IN  /\ r.err = "none"
               /\ ~r.none
               /\ r.data = << [value |-> BytesValue(op.data.bytes),
                               is_null |-> FALSE] >>

\* C12: a value of fewer than 126 bytes is encoded as a varlena with a
\* 1-byte header (low bit 1) whose stored size is the value's length plus 1,
\* followed by the value; decoding the encoded bytes returns the value, and
\* its length plus 1 as the size.
C12_Varlena1B ==
    (cin.kind = "varlena" /\ Len(cin.p) < Varlena_1B_VA_MAX_DATA_SIZE) =>
        /\ cout.stage = "encoded" =>
              /\ cout.err = "none"
              /\ Len(cout.b) = Len(cin.p) + 1
              /\ cout.b[1] % 2 = 1
              /\ cout.b[1] \div 2 = Len(cin.p) + 1
              /\ SliceFrom(cout.b, 1) = cin.p
        /\ cout.stage = "decoded" =>
              /\ cout.err = "none"
              /\ cout.one_b
              /\ cout.value = cin.p
              /\ cout.size = Len(cin.p) + 1

\* C13: a value of 126 bytes or more is encoded as a varlena with a 4-byte
\* header (low two bits 0) whose stored size is the value's length plus 4,
\* followed by the value; decoding the encoded bytes returns the value.
C13_Varlena4B ==
    (cin.kind = "varlena" /\ Len(cin.p) >= Varlena_1B_VA_MAX_DATA_SIZE) =>
        /\ cout.stage = "encoded" =>
              /\ cout.err = "none"
              /\ Len(cout.b) = Len(cin.p) + 4
              /\ Unpack(Slice(cout.b, 0, 4)) = 4 * (Len(cin.p) + 4)
              /\ SliceFrom(cout.b, 4) = cin.p
        /\ cout.stage = "decoded" =>
              /\ cout.err = "none"
              /\ ~cout.one_b
              /\ cout.value = cin.p
              /\ cout.size = Len(cin.p) + 4

\* C14: a line pointer with lp_off < 2^15, lp_flags in 0..3 and
\* lp_len < 2^15 is encoded as 4 bytes, the little-endian word that holds
\* lp_off in bits 0..14, lp_flags in bits 15..16 and lp_len in bits 17..31,
\* and decoding these bytes returns the same lp_off, lp_flags and lp_len.
C14_ItemIdRoundTrip ==
    (cin.kind = "lp" /\ cout.stage \in {"encoded", "decoded"}) =>
        /\ Len(cout.b) = 4
        /\ cout.b[1] + 256 * (cout.b[2] % 128) = cin.lp.lp_off
        /\ (cout.b[2] \div 128) + 2 * (cout.b[3] % 2) = cin.lp.lp_flags
        /\ (cout.b[3] \div 2) + 128 * cout.b[4] = cin.lp.lp_len
        /\ cout.stage = "decoded" => cout.lp = cin.lp

\* a line pointer whose flags have one bit on the far side of the 16-bit
\* boundary and whose lp_len is the largest has been encoded and decoded
C14_Witness ==
    /\ cin.kind = "lp"
    /\ cout.stage = "decoded"
    /\ cin.lp.lp_off = 184
    /\ cin.lp.lp_flags = LP_REDIRECT
    /\ cin.lp.lp_len = LP_FIELD_MAX
    /\ cout.lp = cin.lp

\* C15: for a row of natts columns whose null attributes are exactly S, the
\* header the row serializer produces, written by the tuple-header codec and
\* read back, makes the deserializer report exactly S as the null
\* attributes: writing succeeds, HEAP_HASNULL is set iff S is not empty and,
\* when it is, bit i of the bitmap (LSB first) is 1 iff attribute i is not
\* null.
C15_NullBitmapRoundTrip ==
    cin.kind = "nulls" =>
        /\ cout.stage = "encoded" => cout.err = "none"
        /\ cout.stage = "decoded" =>
              /\ cout.hasnull = (cin.S # {})
              /\ \A i \in 1..cin.n : cout.nulls[i] = (i \in cin.S)
              /\ cin.S # {} =>
                    \A i \in 1..cin.n :
                        ((cout.nullmap \div (2 ^ (i - 1))) % 2 = 1)
                            = (i \notin cin.S)

\* C16: when update_item fails with an error (no typed schema for a row, a
\* row whose value count is not the column count, a field or a new tuple
\* that cannot be serialized), the segment in memory is exactly the one
\* before the call: pages, line pointers, tuple headers and payloads.
C16_FailedUpdateKeepsSegment ==
    (pc = "open" /\ nupd >= 1 /\ err # "none") => mem = prev

\* page_id, item_id are inside [0, number of pages) and [0, number of slots
\* of that page) of the segment m
IndexesInRange(m, page_id, item_id) ==
    /\ 0 <= page_id /\ page_id < Len(m.pages)
    /\ 0 <= item_id /\ item_id < Len(m.pages[page_id + 1].items)

\* C17: update_item with a page index outside [0, number of pages) or an
\* item index outside [0, number of slots of that page), negative indexes
\* included, reports the invalid indexes and leaves the segment unchanged,
\* and read_item with such indexes returns no item.
C17_InvalidIndexes ==
    /\ (pc = "open" /\ nupd >= 1
            /\ ~IndexesInRange(prev, op.page_id, op.item_id)) =>
           (op.branch = "IndexError" /\ mem = prev)
    /\ pc = "open" =>
           \A page_id \in PageIds, item_id \in ItemIds :
               ~IndexesInRange(mem, page_id, item_id) =>
                   read_item(mem, typed, page_id, item_id).none

\* the bytes of page k of the segment before its tuples: the page header and
\* the line pointers, then the free gap, then the tuples each padded to 8
PageContentLength(k) ==
    LET its == ItemsRevBytes(pages[k].items, headers, Len(pages[k].items))
    IN  PageHeaderData_FIELD_SIZE + ItemIdData_FIELD_SIZE * Len(pages[k].item_ids)
        + (pages[k].header.pd_upper - pages[k].header.pd_lower) + Len(its.b)

\* C18: serializing a page of the segment either raises an error or returns
\* exactly as many bytes as the length its header declares, and a file that
\* was saved is as long as the declared lengths of its pages together:
\* number of pages times the page length.
C18_PageLength ==
    /\ \A k \in 1..Len(pages) :
           LET r == Page_to_bytes(pages[k], headers)
           IN  /\ r.err = "none" => Len(r.b) = pages[k].header.length
               /\ pages[k].header.length = SamplePageLength
    /\ (pc = "saved" /\ err = "none") =>
           Len(written) = Len(pages) * SamplePageLength

\* a segment of two pages was saved after updates, and on one of its pages
\* the header, line pointers, gap and tuples together are shorter than the
\* page: the last padding of Page.to_bytes made up the length
C18_Witness ==
    /\ pc = "saved"
    /\ err = "none"
    /\ nupd >= 1
    /\ Len(pages) = 2
    /\ \E k \in 1..Len(pages) : PageContentLength(k) < pages[k].header.length

\* the payload the last call installed: the bytes supplied, or the row
\* serialized over the target's header
OpPayload ==
    IF op.data.list
    THEN _serialize_data(op.data.row, prev.pages[OpPage].items[OpItem].header,
                         prev.headers).data
    ELSE op.data.bytes

\* the target's payload before the call
OldPayload == prev.pages[OpPage].items[OpItem].data

\* the number of slots of the pages 1..n is what it was, but for page
\* `grown`, which has one more
SlotCounts(n, grown) ==
    \A k \in 1..n :
        /\ Len(pages[k].item_ids)
               = Len(prev.pages[k].item_ids) + (IF k = grown THEN 1 ELSE 0)
        /\ Len(pages[k].items)
               = Len(prev.pages[k].items) + (IF k = grown THEN 1 ELSE 0)

C20_NewTupleOwnHeader ==
    NewItemUpdate =>
        NewItem.header # pages[OpPage].items[OpItem].header

\* the bytes Page.to_bytes writes for the page the last call appended
NewPageBytes == Page_to_bytes(pages[Len(pages)], headers)

\* C21: the page a new-page update appended is serialized with every bit of
\* pd_flags (bytes 10..11 of the page header) clear, whatever the flags of
\* the page it was copied from.
C21_NewPageFlagsClear ==
    (AfterUpdate /\ op.branch = "new_page" /\ err = "none") =>
        /\ NewPageBytes.err = "none"
        /\ Unpack(Slice(NewPageBytes.b, 10, 12)) = PD_UNDEFINED

\* C22: the row serializer and the row deserializer place every column at
\* the same offset: a row is serialized (zero padding to the next 4-byte
\* boundary goes after a 1-byte varlena that a fixed-length, non-null column
\* follows), and the deserializer, skipping the same padding, reads from the
\* serialized bytes, and from a stored payload laid out by that rule, every
\* column's value as it was written.
C22_SamePaddingRule ==
    /\ cin.kind = "row" =>
          /\ cout.stage = "encoded" => cout.err = "none"
          /\ cout.stage = "decoded" =>
                (cout.err = "none" /\ cout.data = ExpectedRecords(cin.row))
    /\ (cin.kind = "row_bytes" /\ cout.stage = "decoded") =>
          (cout.err = "none" /\ cout.data = ExpectedRecords(cin.row))

\* C23: every slot that holds a tuple has lp_len = t_hoff + len(payload),
\* after any sequence of update_item calls, so that the payload is the bytes
\* [lp_off + t_hoff, lp_off + lp_len) of the page.
C23_LpLenCoversPayload ==
    \A k \in 1..Len(pages) :
        \A j \in 1..Len(pages[k].item_ids) :
            (pages[k].item_ids[j].lp_flags # LP_UNUSED
                /\ pages[k].item_ids[j].lp_len > 0) =>
                pages[k].item_ids[j].lp_len
                    = headers[pages[k].items[j].header].t_hoff
                      + Len(pages[k].items[j].data)

\* the header the row serializer leaves for the null marks of cin, on the
\* target of cin
CodecHeader ==
    SerializedHeader([i \in 1..cin.n |-> i \in cin.S],
                     CodecTarget(cin.n, cin.bitmap))

\* C24: after the row serializer set or cleared HEAP_HASNULL, the header is
\* consistent with its null bitmap: when HEAP_HASNULL is set the bitmap of
\* ceil(natts / 8) bytes fits the recorded nullmap_byte_size and ends at or
\* before t_hoff, and in both cases the tuple is serialized, its payload
\* starting at t_hoff.
C24_HeaderFitsBitmap ==
    (cin.kind = "nulls" /\ cout.stage = "encoded") =>
        /\ HasFlag(CodecHeader.t_infomask, HEAP_HASNULL) =>
              /\ Ceil(CodecHeader.natts, 8) <= CodecHeader.nullmap_byte_size
              /\ HeapTupleHeaderData_FIELD_SIZE + Ceil(CodecHeader.natts, 8)
                     <= CodecHeader.t_hoff
        /\ cout.err = "none"
        /\ SliceFrom(cout.b, CodecHeader.t_hoff)
               = CodecPayload(cin.n, cin.S, 1)

\* C25: in a page as it was loaded, a line pointer with lp_len = 0 has no
\* tuple: its item has no payload and Page.to_bytes writes no byte for it in
\* the tuple area.
C25_EmptySlotHasNoTuple ==
    (pc = "open" /\ nupd = 0) =>
        \A k \in 1..Len(pages) :
            \A j \in 1..Len(pages[k].item_ids) :
                pages[k].item_ids[j].lp_len = 0 =>
                    LET r == Item_to_bytes(headers[pages[k].items[j].header],
                                           pages[k].items[j].data)
                    IN  /\ pages[k].items[j].data = <<>>
                        /\ r.err = "none"
                        /\ r.b = <<>>

\* C26: a str serialized into a varlena column is stored with the header
\* variant and the size that the length in bytes of its UTF-8 encoding
\* calls for: a 1-byte header when fewer than 126 bytes are encoded and a
\* 4-byte header otherwise, the stored size being the header size plus the
\* number of encoded bytes, which are all written after the header.
C26_Utf8ByteLength ==
    (cin.kind = "text" /\ cout.stage = "encoded") =>
        LET n == Len(Utf8(cin.str))
        IN  /\ cout.err = "none"
            /\ n < Varlena_1B_VA_MAX_DATA_SIZE =>
                  /\ cout.b[1] % 2 = 1
                  /\ Varlena_get_size(TRUE, cout.b) = 1 + n
                  /\ Len(cout.b) = 1 + n
            /\ n >= Varlena_1B_VA_MAX_DATA_SIZE =>
                  /\ cout.b[1] % 4 = 0
                  /\ Varlena_get_size(FALSE, cout.b) = 4 + n
                  /\ Len(cout.b) = 4 + n

\* C27: in a typed new-item or new-page update the old tuple keeps its
\* payload, its null bitmap and its HEAP_HASNULL flag, and so decodes to the
\* row it held before the call.
C27_OldTupleKeepsRow ==
    (NewItemUpdate /\ op.data.list /\ err = "none") =>
        /\ pages[OpPage].items[OpItem].data = OldPayload
        /\ OldTuple.nullmap = TargetBefore.nullmap
        /\ HasFlag(OldTuple.t_infomask, HEAP_HASNULL)
               = HasFlag(TargetBefore.t_infomask, HEAP_HASNULL)
        /\ _deserialize_data(TRUE, pages[OpPage].items[OpItem].data, OldTuple)
               = _deserialize_data(TRUE, OldPayload, TargetBefore)

\* C28: in a saved file every slot that holds a tuple points at its own
\* tuple: the bytes of page k from the slot's lp_off on are the bytes
\* Item.to_bytes gives for the slot's tuple, after any sequence of
\* update_item calls.
C28_SlotsPointAtTuples ==
    (pc = "saved" /\ err = "none") =>
        \A k \in 1..Len(pages) :
            \A j \in 1..Len(pages[k].item_ids) :
                (pages[k].item_ids[j].lp_flags # LP_UNUSED
                    /\ pages[k].item_ids[j].lp_len > 0) =>
                    LET t == Item_to_bytes(headers[pages[k].items[j].header],
                                           pages[k].items[j].data).b
                        at == (k - 1) * SamplePageLength
                              + pages[k].item_ids[j].lp_off
                    IN  Slice(written, at, at + Len(t)) = t

\* C29: loading terminates: every iteration of the page-parsing loop after
\* which the loop goes on has advanced page_offset by a positive amount,
\* the declared length of the page it parsed, also for a page of zeros.
C29_LoadAdvances ==
    [][(pc = "loading" /\ pc' = "loading")
          => cin'.page_offset > cin.page_offset]_vars

\* slot j of page k keeps its line pointer, and its tuple keeps the payload
\* and the header fields it had before the last call
SlotUntouched(k, j) ==
    /\ pages[k].item_ids[j] = prev.pages[k].item_ids[j]
    /\ pages[k].items[j].data = prev.pages[k].items[j].data
    /\ headers[pages[k].items[j].header]
           = prev.headers[prev.pages[k].items[j].header]

\* C30: update_item(p, i, ...) removes and reorders no page and no slot,
\* changes no line pointer, header or payload of a tuple other than slot i
\* of page p and no page header other than page p's, and adds at most one
\* slot at the end of page p or one page of one slot at the end of the
\* segment.
C30_UpdateFrame ==
    AfterUpdate =>
        /\ Len(pages) \in {Len(prev.pages), Len(prev.pages) + 1}
        /\ \A k \in 1..Len(prev.pages) :
              /\ k # OpPage => pages[k].header = prev.pages[k].header
              /\ Len(pages[k].item_ids) = Len(pages[k].items)
              /\ Len(pages[k].items)
                     \in {Len(prev.pages[k].items)}
                         \cup (IF k = OpPage /\ Len(pages) = Len(prev.pages)
                               THEN {Len(prev.pages[k].items) + 1} ELSE {})
              /\ \A j \in 1..Len(prev.pages[k].items) :
                    (k # OpPage \/ j # OpItem) => SlotUntouched(k, j)
        /\ Len(pages) = Len(prev.pages) + 1 =>
              /\ Len(pages[Len(pages)].items) = 1
              /\ Len(pages[Len(pages)].item_ids) = 1

=============================================================================
